---- MODULE Spec2Model ----
(***************************************************************************)
(* A model of pdf_to_text.py: the chapter-title classifier, the outline    *)
(* walker, the chapter-range builder with its manual fallback, and the     *)
(* selection parser with its prompt and the lookups main makes with the    *)
(* result.  Text is modelled as a sequence of one-character strings.       *)
(***************************************************************************)
EXTENDS Integers, Sequences, FiniteSets, TLC

VARIABLES
    title, isChapter, pcTitle,                     \* is_chapter_title
    entries, total_pages, chapters, manualTitle, pcRanges,  \* build_chapter_ranges, prompt_manual_chapters
    selection, parsed, pcParse,                    \* parse_selection
    selections, loopIndex, exported, pcMain,       \* prompt_for_chapter_selection, main
    outline, bookmarks, stack, seen, yielded, pcWalk  \* collect_outline_entries

varsTitle  == <<title, isChapter, pcTitle>>
varsRanges == <<entries, total_pages, chapters, manualTitle, pcRanges>>
varsParse  == <<selection, parsed, pcParse>>
varsMain   == <<selections, loopIndex, exported, pcMain>>
varsWalk   == <<outline, bookmarks, stack, seen, yielded, pcWalk>>
vars == <<varsTitle, varsRanges, varsParse, varsMain, varsWalk>>

(***************************************************************************)
(* Characters and character classes of the regular expressions.            *)
(***************************************************************************)
LowerLetters == <<"a","b","c","d","e","f","g","h","i","j","k","l","m",
                  "n","o","p","q","r","s","t","u","v","w","x","y","z">>
UpperLetters == <<"A","B","C","D","E","F","G","H","I","J","K","L","M",
                  "N","O","P","Q","R","S","T","U","V","W","X","Y","Z">>

Range(s) == {s[i] : i \in DOMAIN s}

\* str.lower() on one character
LowerChar(c) ==
    IF \E i \in DOMAIN UpperLetters : UpperLetters[i] = c
    THEN LowerLetters[CHOOSE i \in DOMAIN UpperLetters : UpperLetters[i] = c]
    ELSE c

\* str.lower()
Lower(s) == [i \in DOMAIN s |-> LowerChar(s[i])]

Space    == {" ", "\t", "\n"}                              \* \s, and what int() and strip() strip
Sep      == Space \cup {".", "-"}                          \* [\s.-]
Digit    == {"0","1","2","3","4","5","6","7","8","9"}      \* [0-9]
Alpha    == Range(LowerLetters) \cup Range(UpperLetters)   \* [A-Za-z]
RomanSym == {c \in Alpha : LowerChar(c) \in {"i","v","x","l","c","d","m"}}  \* [ivxlcdm], IGNORECASE
WordChar == Alpha \cup Digit \cup {"_"}                    \* \w, as \b sees it

\* The end of the longest run of characters of Class that starts at s[i]:
\* the first index from i on that is past the end or holds another character.
RunEnd(s, i, Class) ==
    CHOOSE j \in i..(Len(s) + 1) :
        /\ (j = Len(s) + 1 \/ s[j] \notin Class)
        /\ \A k \in i..(j - 1) : s[k] \in Class

\* s has the lower-case word w at index i, case ignored
StartsWithCI(s, i, w) ==
    /\ i + Len(w) - 1 <= Len(s)
    /\ \A k \in 1..Len(w) : LowerChar(s[i + k - 1]) = w[k]

\* The ends of (?:chapter|chap\.?) after ^\s*, in the order the regex engine
\* tries them: "chapter" first, then "chap" (its optional dot is also a
\* character of the separator run that follows, so one candidate covers both).
PrefixEnds(s) ==
    LET p == RunEnd(s, 1, Space) IN
    IF StartsWithCI(s, p, <<"c","h","a","p","t","e","r">>) THEN <<p + 7, p + 4>>
    ELSE IF StartsWithCI(s, p, <<"c","h","a","p">>) THEN <<p + 4>>
    ELSE <<>>

\* One attempt of  [\s.-]*(Class+)\b  from index p: the separator run and the
\* captured run are both maximal (a shorter one leaves a character the next
\* element cannot take), and \b needs a non-word character or the end next.
TryFrom(s, p, Class) ==
    LET q == RunEnd(s, p, Sep)
        e == RunEnd(s, q, Class)
    IN [matched |-> e > q /\ (e > Len(s) \/ s[e] \notin WordChar),
        group   |-> SubSeq(s, q, e - 1)]

\* re.match of ^\s*(?:chapter|chap\.?)[\s.-]*(Class+)\b : the first prefix
\* alternative that lets the rest match decides the captured group.
ChapterMatch(s, Class) ==
    LET ends == PrefixEnds(s)
        hits == {i \in DOMAIN ends : TryFrom(s, ends[i], Class).matched}
    IN IF hits = {} THEN [matched |-> FALSE, group |-> <<>>]
       ELSE TryFrom(s, ends[CHOOSE i \in hits : \A j \in hits : i <= j], Class)

CHAPTER_DIGIT_RE(s) == ChapterMatch(s, Digit)
CHAPTER_ROMAN_RE(s) == ChapterMatch(s, RomanSym)
CHAPTER_WORD_RE(s)  == ChapterMatch(s, Alpha)

NUMBER_WORDS ==
       (<<"z","e","r","o">> :> 0) @@ (<<"o","n","e">> :> 1) @@ (<<"t","w","o">> :> 2)
    @@ (<<"t","h","r","e","e">> :> 3) @@ (<<"f","o","u","r">> :> 4)
    @@ (<<"f","i","v","e">> :> 5) @@ (<<"s","i","x">> :> 6)
    @@ (<<"s","e","v","e","n">> :> 7) @@ (<<"e","i","g","h","t">> :> 8)
    @@ (<<"n","i","n","e">> :> 9) @@ (<<"t","e","n">> :> 10)
    @@ (<<"e","l","e","v","e","n">> :> 11) @@ (<<"t","w","e","l","v","e">> :> 12)
    @@ (<<"t","h","i","r","t","e","e","n">> :> 13)
    @@ (<<"f","o","u","r","t","e","e","n">> :> 14)
    @@ (<<"f","i","f","t","e","e","n">> :> 15)
    @@ (<<"s","i","x","t","e","e","n">> :> 16)
    @@ (<<"s","e","v","e","n","t","e","e","n">> :> 17)
    @@ (<<"e","i","g","h","t","e","e","n">> :> 18)
    @@ (<<"n","i","n","e","t","e","e","n">> :> 19)
    @@ (<<"t","w","e","n","t","y">> :> 20)

roman_map == [c \in {"i","v","x","l","c","d","m"} |->
                CASE c = "i" -> 1 [] c = "v" -> 5 [] c = "x" -> 10 [] c = "l" -> 50
                  [] c = "c" -> 100 [] c = "d" -> 500 [] c = "m" -> 1000]

\* The loop of roman_to_int over value.lower()[::-1]: i runs from the last
\* character to the first.  A character outside roman_map is the KeyError.
RECURSIVE RomanLoop(_, _, _, _)
RomanLoop(s, i, total, prev) ==
    IF i = 0 THEN [none |-> FALSE, value |-> total]
    ELSE IF s[i] \notin DOMAIN roman_map THEN [none |-> TRUE, value |-> 0]
    ELSE LET current == roman_map[s[i]] IN
         IF current < prev
         THEN RomanLoop(s, i - 1, total - current, prev)
         ELSE RomanLoop(s, i - 1, total + current, current)

\* roman_to_int: none is Python's None
roman_to_int(value) == RomanLoop(Lower(value), Len(value), 0, 0)

\* "if converted:" : None and 0 are falsy, every other integer is truthy
Truthy(converted) == ~converted.none /\ converted.value # 0

is_chapter_title(t) ==
    IF CHAPTER_DIGIT_RE(t).matched THEN TRUE
    ELSE IF CHAPTER_ROMAN_RE(t).matched /\ Truthy(roman_to_int(CHAPTER_ROMAN_RE(t).group))
         THEN TRUE
    ELSE IF CHAPTER_WORD_RE(t).matched
            /\ Lower(CHAPTER_WORD_RE(t).group) \in DOMAIN NUMBER_WORDS
         THEN TRUE
    ELSE FALSE

(***************************************************************************)
(* The titles the classifier is run on: a lead, a body and a tail.         *)
(***************************************************************************)
MaxRomanLen == 7

TitleLeads ==
    { <<"C","h","a","p","t","e","r"," ">>,
      <<" ","c","h","a","p","."," ">>,
      <<"C","H","A","P","T","E","R","-">>,
      <<"c","h","a","p","t","e","r">>,
      <<"P","r","e","f","a","c","e"," ">> }

RomanRuns == UNION {[1..k -> {"I","V","x"}] : k \in 1..MaxRomanLen}

OtherBodies ==
    { <<>>, <<"7">>, <<"0","0","7">>, <<"7","a">>, <<"o","n","e">>, <<"S","i","x">>,
      <<"z","e","r","o">>, <<"t","w","e","n","t","y">>, <<"A">>, <<"M","i","x">> }

TitleTails == { <<>>, <<":"," ","A">>, <<"s">> }

Titles == {l \o b \o t : l \in TitleLeads, b \in RomanRuns \cup OtherBodies, t \in TitleTails}

IdleTitle  == title = <<>> /\ isChapter = FALSE /\ pcTitle = "idle"
IdleRanges == entries = <<>> /\ total_pages = 1 /\ chapters = <<>> /\ manualTitle = "" /\ pcRanges = "idle"
IdleParse  == selection = <<>> /\ parsed = [error |-> "", ranges |-> <<>>] /\ pcParse = "idle"
IdleMain   == selections = <<>> /\ loopIndex = 1 /\ exported = <<>> /\ pcMain = "idle"
IdleWalk   == /\ outline = <<>> /\ bookmarks = <<>> /\ stack = <<>> /\ seen = {}
              /\ yielded = <<>> /\ pcWalk = "idle"

InitTitle ==
    /\ title \in Titles
    /\ isChapter = FALSE
    /\ pcTitle = "call"
    /\ IdleRanges /\ IdleParse /\ IdleMain /\ IdleWalk

\* a call of is_chapter_title(title)
Classify ==
    /\ pcTitle = "call"
    /\ isChapter' = is_chapter_title(title)
    /\ pcTitle' = "returned"
    /\ UNCHANGED <<title, varsRanges, varsParse, varsMain, varsWalk>>

NextTitle == Classify

SpecTitle == InitTitle /\ [][NextTitle]_vars

\* The title is a chapter prefix followed by a run of Roman symbols (the
\* Roman pattern matches) and matches neither the digit nor the word rule.
RomanOnlyTitle ==
    /\ CHAPTER_ROMAN_RE(title).matched
    /\ ~CHAPTER_DIGIT_RE(title).matched
    /\ ~(CHAPTER_WORD_RE(title).matched
         /\ Lower(CHAPTER_WORD_RE(title).group) \in DOMAIN NUMBER_WORDS)

\* C6: a title that only the Roman rule can accept classifies true only if
\* its run decodes to a positive integer; a run that decodes to zero or to a
\* negative value classifies false.
C6_RomanNeedsPositive ==
    (pcTitle = "returned" /\ RomanOnlyTitle) =>
        (isChapter => roman_to_int(CHAPTER_ROMAN_RE(title).group).value > 0)

(***************************************************************************)
(* Text helpers: str.strip, int, str.split, str.replace.                   *)
(***************************************************************************)
\* str.strip(): leading and trailing whitespace removed
Strip(s) ==
    LET b == RunEnd(s, 1, Space) IN
    IF b > Len(s) THEN <<>>
    ELSE SubSeq(s, b, CHOOSE e \in b..Len(s) :
                          s[e] \notin Space /\ \A k \in (e + 1)..Len(s) : s[k] \in Space)

DigitValue(c) == CHOOSE n \in 0..9 : <<"0","1","2","3","4","5","6","7","8","9">>[n + 1] = c

RECURSIVE DigitsValue(_)
DigitsValue(ds) ==
    IF ds = <<>> THEN 0
    ELSE 10 * DigitsValue(SubSeq(ds, 1, Len(ds) - 1)) + DigitValue(ds[Len(ds)])

\* int(s): surrounding whitespace is ignored, then an optional sign and one
\* or more digits; anything else is the ValueError (ok = FALSE).
py_int(s) ==
    LET t == Strip(s)
        signed == t # <<>> /\ t[1] \in {"-", "+"}
        ds == IF signed THEN Tail(t) ELSE t
    IN IF ds # <<>> /\ \A i \in DOMAIN ds : ds[i] \in Digit
       THEN [ok |-> TRUE, value |-> IF signed /\ t[1] = "-" THEN 0 - DigitsValue(ds)
                                    ELSE DigitsValue(ds)]
       ELSE [ok |-> FALSE, value |-> 0]

\* s.split(ch): the pieces between the occurrences of ch, empty ones kept
RECURSIVE Split(_, _)
Split(s, ch) ==
    IF \A i \in DOMAIN s : s[i] # ch THEN <<s>>
    ELSE LET k == CHOOSE i \in DOMAIN s : s[i] = ch /\ \A j \in 1..(i - 1) : s[j] # ch
         IN <<SubSeq(s, 1, k - 1)>> \o Split(SubSeq(s, k + 1, Len(s)), ch)

\* s.split(ch, 1) of a string that holds ch: cut at the first occurrence
SplitFirst(s, ch) ==
    LET k == CHOOSE i \in DOMAIN s : s[i] = ch /\ \A j \in 1..(i - 1) : s[j] # ch
    IN <<SubSeq(s, 1, k - 1), SubSeq(s, k + 1, Len(s))>>

\* s.replace(ch, "")
RECURSIVE Remove(_, _)
Remove(s, ch) ==
    IF s = <<>> THEN <<>>
    ELSE (IF s[1] = ch THEN <<>> ELSE <<s[1]>>) \o Remove(Tail(s), ch)

\* The shared parse of "N" or "N-M": the try block of prompt_manual_chapters
\* and of parse_selection.
ParsePair(text) ==
    IF "-" \in Range(text)
    THEN LET parts == SplitFirst(text, "-")
             a == py_int(parts[1])
             b == py_int(parts[2])
         IN [ok |-> a.ok /\ b.ok, start |-> a.value, end |-> b.value]
    ELSE LET a == py_int(text) IN [ok |-> a.ok, start |-> a.value, end |-> a.value]

(***************************************************************************)
(* build_chapter_ranges and the manual fallback of main.                   *)
(***************************************************************************)
\* sorted(entries, key=page_index) is stable: an entry goes after every
\* entry already placed whose page_index is not greater.
InsertByPage(sorted, e) ==
    LET k == Cardinality({i \in DOMAIN sorted : sorted[i].page_index <= e.page_index})
    IN SubSeq(sorted, 1, k) \o <<e>> \o SubSeq(sorted, k + 1, Len(sorted))

RECURSIVE SortByPage(_)
SortByPage(es) ==
    IF es = <<>> THEN <<>>
    ELSE InsertByPage(SortByPage(SubSeq(es, 1, Len(es) - 1)), es[Len(es)])

\* faulty variant: the entries are taken in the order given
UnsortedByPage(es) == es

\* line 220
SortedEntries(es) == SortByPage(es)

\* faulty variant: the end is one page short
EndIndexShort(es, idx, pages) ==
    IF idx + 1 <= Len(es) THEN es[idx + 1].page_index - 2 ELSE pages - 1

\* lines 224-227, with idx 1-based
EndIndex(es, idx, pages) ==
    IF idx + 1 <= Len(es) THEN es[idx + 1].page_index - 1 ELSE pages - 1

build_chapter_ranges(es0, pages) ==
    IF es0 = <<>> THEN <<>>
    ELSE LET es == SortedEntries(es0) IN
         [idx \in 1..Len(es) |->
            [title      |-> es[idx].title,
             start_page |-> es[idx].page_index + 1,
             end_page   |-> EndIndex(es, idx, pages) + 1]]

MaxPages   == 4
MaxEntries == 3
MaxManual  == 1
MaxPageInputLen == 3

\* The heading entries handed to build_chapter_ranges: any order, positions
\* within the document; the title is the entry's place in the input.
EntryLists(pages) ==
    UNION {{[i \in 1..n |-> [title |-> i, page_index |-> pos[i], depth |-> 0]] :
               pos \in [1..n -> 0..(pages - 1)]} : n \in 0..MaxEntries}

PageInputs == UNION {[1..k -> {"0", "1", "2", "-", " ", "x"}] : k \in 0..MaxPageInputLen}

InitRanges ==
    /\ total_pages \in 1..MaxPages
    /\ entries \in EntryLists(total_pages)
    /\ chapters = <<>>
    /\ manualTitle = ""
    /\ pcRanges = "extract"
    /\ IdleTitle /\ IdleParse /\ IdleMain /\ IdleWalk

\* main, lines 405-411: the ranges of the outline, or the manual prompt
\* when there are none
BuildChapterRanges ==
    /\ pcRanges = "extract"
    /\ chapters' = build_chapter_ranges(entries, total_pages)
    /\ pcRanges' = IF chapters' = <<>> THEN "manualTitle" ELSE "display"
    /\ UNCHANGED <<entries, total_pages, manualTitle, varsTitle, varsParse, varsMain, varsWalk>>

\* prompt_manual_chapters, lines 248-250: a title, or a blank line to finish
ManualTitle ==
    /\ pcRanges = "manualTitle"
    /\ \E t \in {"", "T"} :
          IF t = ""
          THEN /\ pcRanges' = IF chapters = <<>> THEN "exit" ELSE "display"
               /\ UNCHANGED manualTitle
          ELSE /\ Len(chapters) < MaxManual
               /\ manualTitle' = t
               /\ pcRanges' = "manualPages"
    /\ UNCHANGED <<entries, total_pages, chapters, varsTitle, varsParse, varsMain, varsWalk>>

\* faulty variant: the two pages are kept as typed
KeepPages(start_page, end_page) == <<start_page, end_page>>

\* lines 269-270
SwapPages(start_page, end_page) ==
    IF start_page > end_page THEN <<end_page, start_page>> ELSE <<start_page, end_page>>

\* prompt_manual_chapters, lines 252-273: one answer to the page-range
\* prompt; a rejected answer asks again
ManualPages ==
    /\ pcRanges = "manualPages"
    /\ \E typed \in PageInputs :
          LET page_input == Strip(typed)
              p == ParsePair(page_input)
          IN IF page_input = <<>> \/ ~p.ok \/ p.start < 1 \/ p.end < 1
             THEN UNCHANGED <<chapters, pcRanges>>
             ELSE LET se == SwapPages(p.start, p.end) IN
                  /\ chapters' = Append(chapters, [title |-> manualTitle,
                                                   start_page |-> se[1],
                                                   end_page |-> se[2]])
                  /\ pcRanges' = "manualTitle"
    /\ UNCHANGED <<entries, total_pages, manualTitle, varsTitle, varsParse, varsMain, varsWalk>>

NextRanges == BuildChapterRanges \/ ManualTitle \/ ManualPages

SpecRanges == InitRanges /\ [][NextRanges]_vars

\* the pages of a range, none when end_page < start_page
PagesOf(r) == r.start_page..r.end_page

\* chapters holds what build_chapter_ranges returned for a non-empty input
BuiltFromOutline == pcRanges = "display" /\ entries # <<>>

RangesAscending(rs) ==
    \A i, j \in DOMAIN rs : i < j => rs[i].start_page <= rs[j].start_page

RangesDisjoint(rs) ==
    \A i, j \in DOMAIN rs : i < j => PagesOf(rs[i]) \cap PagesOf(rs[j]) = {}

RangesCover(rs, first, last) ==
    /\ UNION {PagesOf(rs[i]) : i \in DOMAIN rs} = first..last
    /\ rs[Len(rs)].end_page = last

\* C1 as claimed: the ranges built from a non-empty sequence of entries are
\* ascending by start_page, pairwise disjoint, and cover every page of
\* [1, total_pages], the last one ending at total_pages.
C1_CoversFromPageOne ==
    BuiltFromOutline =>
        /\ RangesAscending(chapters)
        /\ RangesDisjoint(chapters)
        /\ RangesCover(chapters, 1, total_pages)

\* C1 as amended: the ranges are ascending by start_page, pairwise disjoint,
\* and cover every page from the first range's start_page (the page of the
\* earliest heading) to total_pages, the last one ending at total_pages; the
\* pages before the earliest heading belong to no range.
C1_CoversFromFirstHeading ==
    BuiltFromOutline =>
        /\ RangesAscending(chapters)
        /\ RangesDisjoint(chapters)
        /\ RangesCover(chapters, chapters[1].start_page, total_pages)

\* C1's case: ranges built from entries given out of order, the earliest
\* heading after page 1
C1_Witness ==
    /\ BuiltFromOutline
    /\ Len(chapters) >= 2
    /\ chapters[1].start_page > 1
    /\ \E i \in 1..(Len(entries) - 1) : entries[i].page_index > entries[i + 1].page_index

\* The rule of the range builder for entries es, whose titles are their
\* places in es, and result rs: one range per entry, in position order,
\* starting on the entry's page and ending gap pages before the position of
\* the next entry, the last one ending on the last page.
FollowsRule(es, pages, rs, gap) ==
    /\ Len(rs) = Len(es)
    /\ {rs[i].title : i \in DOMAIN rs} = DOMAIN es
    /\ \A i \in DOMAIN rs :
          /\ rs[i].start_page = es[rs[i].title].page_index + 1
          /\ i < Len(rs) =>
                /\ es[rs[i].title].page_index <= es[rs[i + 1].title].page_index
                /\ rs[i].end_page = es[rs[i + 1].title].page_index - gap
          /\ i = Len(rs) => rs[i].end_page = pages

\* C4 as claimed: build_chapter_ranges returns one range per entry, sorted by
\* position, with start_page = position(i) + 1 and end_page =
\* position(i+1) - 1 when a next entry exists, else total_pages; an empty
\* input yields an empty result.
C4_EndIsNextPositionMinusOne ==
    [][pcRanges = "extract" => FollowsRule(entries, total_pages, chapters', 1)]_vars

\* C4 as amended: the same with end_page = position(i+1), the page before
\* the next range's start_page; two adjacent entries that share a position
\* give a range with end_page = start_page - 1, returned as it is.
C4_EndIsNextPosition ==
    [][pcRanges = "extract" => FollowsRule(entries, total_pages, chapters', 0)]_vars

\* C4's case: ranges built from entries out of order, two of which share a
\* position, the range between them ending before it starts
C4_Witness ==
    /\ BuiltFromOutline
    /\ \E i \in 1..(Len(entries) - 1) : entries[i].page_index > entries[i + 1].page_index
    /\ \E i \in DOMAIN chapters : chapters[i].end_page < chapters[i].start_page

\* C5 as claimed: every ChapterRange the program constructs, from the
\* outline or from the manual prompt, has start_page >= 1, end_page >= 1 and
\* start_page <= end_page.
C5_EveryRangeWellFormed ==
    \A i \in DOMAIN chapters :
        /\ chapters[i].start_page >= 1
        /\ chapters[i].end_page >= 1
        /\ chapters[i].start_page <= chapters[i].end_page

\* C5 as amended: a range of the manual prompt has 1 <= start_page <=
\* end_page; a range built from the outline (positions within the document)
\* has start_page >= 1 and end_page >= start_page - 1, and has start_page <=
\* end_page unless the next range starts on the same page.
C5_RangeBounds ==
    \A i \in DOMAIN chapters :
        /\ chapters[i].start_page >= 1
        /\ chapters[i].end_page >= chapters[i].start_page - 1
        /\ (entries = <<>>
            \/ i = Len(chapters)
            \/ chapters[i + 1].start_page # chapters[i].start_page)
              => chapters[i].start_page <= chapters[i].end_page
        /\ (entries # <<>>
            /\ i < Len(chapters)
            /\ chapters[i + 1].start_page = chapters[i].start_page)
              => chapters[i].end_page = chapters[i].start_page - 1

\* C5's case: a range of more than one page typed at the manual prompt
C5_Witness ==
    /\ entries = <<>>
    /\ pcRanges = "display"
    /\ Len(chapters) >= 1
    /\ chapters[1].start_page < chapters[1].end_page

(***************************************************************************)
(* parse_selection.                                                        *)
(***************************************************************************)
UseNumbers   == "Use chapter numbers like 1 or 1-3."
MustPositive == "Chapter numbers must be positive."
NoneDetected == "No chapter numbers detected."

\* faulty variant: the two numbers are kept as typed
KeepOrder(start, end) == <<start, end>>

\* lines 303-304
SwapIfReversed(start, end) == IF start > end THEN <<end, start>> ELSE <<start, end>>

\* faulty variant: only the first number is checked
StartNotPositive(start, end) == start < 1

\* line 301
NotPositive(start, end) == start < 1 \/ end < 1

\* The body of the loop of parse_selection for one token, lines 290-305:
\* the token is skipped, raises, or gives one pair.
TokenOutcome(token) ==
    IF token = <<>> THEN [kind |-> "skip", error |-> "", pair |-> <<0, 0>>]
    ELSE LET p == ParsePair(token) IN
         IF ~p.ok THEN [kind |-> "raise", error |-> UseNumbers, pair |-> <<0, 0>>]
         ELSE IF NotPositive(p.start, p.end)
              THEN [kind |-> "raise", error |-> MustPositive, pair |-> <<0, 0>>]
         ELSE [kind |-> "pair", error |-> "", pair |-> SwapIfReversed(p.start, p.end)]

\* The loop of parse_selection from token i on, and lines 306-308 after it.
\* error is the message of the ValueError raised, "" when a list is returned.
RECURSIVE ParseTokens(_, _, _)
ParseTokens(tokens, i, ranges) ==
    IF i > Len(tokens)
    THEN IF ranges = <<>> THEN [error |-> NoneDetected, ranges |-> <<>>]
         ELSE [error |-> "", ranges |-> ranges]
    ELSE LET o == TokenOutcome(tokens[i]) IN
         IF o.kind = "raise" THEN [error |-> o.error, ranges |-> <<>>]
         ELSE IF o.kind = "skip" THEN ParseTokens(tokens, i + 1, ranges)
         ELSE ParseTokens(tokens, i + 1, Append(ranges, o.pair))

\* line 289: selection.replace(" ", "").split(",")
SelectionTokens(s) == Split(Remove(s, " "), ",")

parse_selection(s) == ParseTokens(SelectionTokens(s), 1, <<>>)

MaxSelectionLen == 4

SelectionInputs ==
    UNION {[1..k -> {"0", "1", "2", "3", "-", ",", " ", "\t", "x"}] : k \in 0..MaxSelectionLen}

InitParse ==
    /\ selection \in SelectionInputs
    /\ parsed = [error |-> "", ranges |-> <<>>]
    /\ pcParse = "call"
    /\ IdleTitle /\ IdleRanges /\ IdleMain /\ IdleWalk

\* a call of parse_selection(selection)
ParseSelection ==
    /\ pcParse = "call"
    /\ parsed' = parse_selection(selection)
    /\ pcParse' = "returned"
    /\ UNCHANGED <<selection, varsTitle, varsRanges, varsMain, varsWalk>>

NextParse == ParseSelection

SpecParse == InitParse /\ [][NextParse]_vars

\* s with every whitespace character removed
RECURSIVE WithoutSpace(_)
WithoutSpace(s) ==
    IF s = <<>> THEN <<>>
    ELSE (IF s[1] \in Space THEN <<>> ELSE <<s[1]>>) \o WithoutSpace(Tail(s))

NonEmpty(tok) == tok # <<>>

\* the tokens of the claim: all whitespace removed, split on commas, empty
\* tokens discarded
ClaimedTokens(s) == SelectSeq(Split(WithoutSpace(s), ","), NonEmpty)

AllDigits(t) == t # <<>> /\ \A i \in DOMAIN t : t[i] \in Digit

\* a token "n" or "a-b" of plain numbers, and the pair it stands for
IsNumberToken(tok) ==
    IF "-" \in Range(tok)
    THEN AllDigits(SplitFirst(tok, "-")[1]) /\ AllDigits(SplitFirst(tok, "-")[2])
    ELSE AllDigits(tok)

Least(a, b) == IF a <= b THEN a ELSE b
Greatest(a, b) == IF a <= b THEN b ELSE a

PairOfToken(tok) ==
    IF "-" \in Range(tok)
    THEN LET a == DigitsValue(SplitFirst(tok, "-")[1])
             b == DigitsValue(SplitFirst(tok, "-")[2])
         IN <<Least(a, b), Greatest(a, b)>>
    ELSE <<DigitsValue(tok), DigitsValue(tok)>>

\* C7: when parse_selection succeeds, its result is what removing all
\* whitespace (spaces, tabs, any other), splitting on commas and discarding
\* empty tokens gives: one pair per remaining token, in token order, not
\* deduplicated and not merged, each with 1 <= start <= end, a token a-b with
\* a > b giving (b, a).
C7_ResultIsPairPerToken ==
    (pcParse = "returned" /\ parsed.error = "") =>
        LET toks == ClaimedTokens(selection) IN
        /\ Len(parsed.ranges) = Len(toks)
        /\ \A i \in DOMAIN toks :
              /\ IsNumberToken(toks[i])
              /\ parsed.ranges[i] = PairOfToken(toks[i])
              /\ 1 <= parsed.ranges[i][1]
              /\ parsed.ranges[i][1] <= parsed.ranges[i][2]

\* C7's case: a successful parse of an input that holds a tab and a token
\* a-b with a > b
C7_Witness ==
    /\ pcParse = "returned" /\ parsed.error = ""
    /\ "\t" \in Range(selection)
    /\ \E i \in DOMAIN ClaimedTokens(selection) :
          /\ "-" \in Range(ClaimedTokens(selection)[i])
          /\ py_int(SplitFirst(ClaimedTokens(selection)[i], "-")[1]).value
               > py_int(SplitFirst(ClaimedTokens(selection)[i], "-")[2]).value

\* the parts of a token: around its first hyphen, or the token itself
PartsOf(tok) == IF "-" \in Range(tok) THEN SplitFirst(tok, "-") ELSE <<tok>>

HasNonIntegerPart(tok) == \E k \in DOMAIN PartsOf(tok) : ~py_int(PartsOf(tok)[k]).ok

HasValueBelowOne(tok) ==
    /\ ~HasNonIntegerPart(tok)
    /\ \E k \in DOMAIN PartsOf(tok) : py_int(PartsOf(tok)[k]).value < 1

Offending(tok) == HasNonIntegerPart(tok) \/ HasValueBelowOne(tok)

StartExceedsTotal(ranges, total_chapters) ==
    \E i \in DOMAIN ranges : ranges[i][1] > total_chapters

\* line 323: any(end > total_chapters for _, end in ranges)
ExceedsTotal(ranges, total_chapters) ==
    \E i \in DOMAIN ranges : ranges[i][2] > total_chapters

\* seq[k] with a 0-based Python index succeeds: a negative index counts from
\* the end, anything else outside the list is the IndexError
IndexInRange(seq, k) == 0 - Len(seq) <= k /\ k < Len(seq)

\* seq[lo:hi] with 0-based Python bounds: a negative bound counts from the
\* end, and both are clamped to the list
ClampBound(seq, b) ==
    LET n == IF b < 0 THEN b + Len(seq) ELSE b
    IN IF n < 0 THEN 0 ELSE IF n > Len(seq) THEN Len(seq) ELSE n

PySlice(seq, lo, hi) == SubSeq(seq, ClampBound(seq, lo) + 1, ClampBound(seq, hi))

MaxChapters == 3

\* the chapters on display: one per heading, a page each
DisplayedChapters ==
    {build_chapter_ranges([i \in 1..n |-> [title |-> i, page_index |-> i - 1, depth |-> 0]], n) :
        n \in 1..MaxChapters}

InitMain ==
    /\ chapters \in DisplayedChapters
    /\ entries = <<>> /\ total_pages = Len(chapters) /\ manualTitle = "" /\ pcRanges = "idle"
    /\ selections = <<>>
    /\ loopIndex = 1
    /\ exported = <<>>
    /\ pcMain = "select"
    /\ IdleTitle /\ IdleParse /\ IdleWalk

\* prompt_for_chapter_selection, lines 315-322: what one typed answer comes
\* to before the chapter count is looked at: a blank line, the message of
\* the ValueError of parse_selection, or its ranges
ReadSelection(typed) ==
    LET stripped == Strip(typed) IN
    IF stripped = <<>> THEN [blank |-> TRUE, error |-> "", ranges |-> <<>>]
    ELSE [blank  |-> FALSE,
          error  |-> parse_selection(stripped).error,
          ranges |-> parse_selection(stripped).ranges]

\* the answers a user can type
Answers == {ReadSelection(typed) : typed \in SelectionInputs}

\* prompt_for_chapter_selection(len(chapters)), lines 315-326: one answer to
\* the prompt; a rejected answer asks again.  Then main, lines 418-421.
PromptForChapterSelection ==
    /\ pcMain = "select"
    /\ \E answer \in Answers :
          IF answer.blank
          THEN selections' = <<>> /\ pcMain' = "exit"
          ELSE IF answer.error # "" \/ ExceedsTotal(answer.ranges, Len(chapters))
               THEN UNCHANGED <<selections, pcMain>>
          ELSE selections' = answer.ranges /\ pcMain' = "print"
    /\ UNCHANGED <<loopIndex, exported, varsTitle, varsRanges, varsParse, varsWalk>>

\* main, lines 426-433: one turn of the loop that prints the chosen ranges
PrintRange ==
    /\ pcMain = "print"
    /\ LET start_idx == selections[loopIndex][1]
           end_idx   == selections[loopIndex][2]
       IN IF ~IndexInRange(chapters, start_idx - 1) \/ ~IndexInRange(chapters, end_idx - 1)
          THEN pcMain' = "IndexError" /\ UNCHANGED loopIndex
          ELSE IF loopIndex < Len(selections)
               THEN loopIndex' = loopIndex + 1 /\ UNCHANGED pcMain
          ELSE loopIndex' = 1 /\ pcMain' = "export"
    /\ UNCHANGED <<selections, exported, varsTitle, varsRanges, varsParse, varsWalk>>

\* main, lines 435-453: one turn of the export loop; exported records, per
\* selection, the pages handed to pdftotext and how it ended, or that the
\* subset was empty and the selection skipped
ExportRange ==
    /\ pcMain = "export"
    /\ LET start_idx == selections[loopIndex][1]
           end_idx   == selections[loopIndex][2]
           subset    == PySlice(chapters, start_idx - 1, end_idx)
       IN IF subset = <<>>
          THEN exported' = Append(exported, [outcome |-> "skipped", first |-> 0, last |-> 0])
          ELSE \E outcome \in {"created", "failed"} :
                  exported' = Append(exported, [outcome |-> outcome,
                                                first |-> subset[1].start_page,
                                                last  |-> subset[Len(subset)].end_page])
    /\ IF loopIndex < Len(selections)
       THEN loopIndex' = loopIndex + 1 /\ UNCHANGED pcMain
       ELSE loopIndex' = 1 /\ pcMain' = "exit"
    /\ UNCHANGED <<selections, varsTitle, varsRanges, varsParse, varsWalk>>

NextMain == PromptForChapterSelection \/ PrintRange \/ ExportRange

SpecMain == InitMain /\ [][NextMain]_vars

\* C10: every pair the selection prompt returns has 1 <= start <= end <=
\* total_chapters (a blank answer returns the empty list), so no lookup
\* chapters[start-1], chapters[end-1] of main is out of bounds and no subset
\* chapters[start-1:end] is empty.
C10_SelectionsWithinChapters ==
    /\ \A i \in DOMAIN selections :
          /\ 1 <= selections[i][1]
          /\ selections[i][1] <= selections[i][2]
          /\ selections[i][2] <= Len(chapters)
    /\ pcMain # "IndexError"
    /\ \A i \in DOMAIN exported : exported[i].outcome # "skipped"

\* C10's case: a selection returned by the prompt that spans chapters up to
\* the last one, looked up and handed to the export step
C10_Witness ==
    /\ pcMain = "exit"
    /\ Len(exported) = Len(selections)
    /\ \E i \in DOMAIN selections :
          /\ selections[i][1] < selections[i][2]
          /\ selections[i][2] = Len(chapters)

(***************************************************************************)
(* _iter_outline_items driven by collect_outline_entries.  The outline is  *)
(* a heap of lists and bookmark nodes: outline[l] is the items of list l,  *)
(* each a list or a node, and the reader's outline is the list RootList.   *)
(* A node has a title or none, a destination that resolves or fails, and   *)
(* children: no attribute, a list, a callable that returns a list, or a    *)
(* callable that raises TypeError.                                         *)
(***************************************************************************)
Lists    == {"L1", "L2"}
Nodes    == {"N1", "N2"}
RootList == "L1"
MaxItems == 2

\* the page reader.get_destination_page_number gives for a node that resolves
PageOf(n) == IF n = "N1" THEN 1 ELSE 0

ChildKinds ==
    {[kind |-> "none", target |-> RootList], [kind |-> "raises", target |-> RootList]}
    \cup [kind : {"list", "callable"}, target : Lists]

\* an untitled node is never resolved, so its destination is left resolving
NodeShapes ==
    {b \in [titled : BOOLEAN, resolves : BOOLEAN, children : ChildKinds] :
        ~b.titled => b.resolves}

ItemSeqs(n) == UNION {[1..k -> Lists \cup Nodes] : k \in 0..n}

Sum(f) == LET RECURSIVE S(_)
              S(D) == IF D = {} THEN 0
                      ELSE LET d == CHOOSE d \in D : TRUE IN Len(f[d]) + S(D \ {d})
          IN S(DOMAIN f)

\* the recursion depth at which Python raises RecursionError, scaled down;
\* only a walk caught in a cycle of lists gets there (RecursionErrorOnlyInListCycle)
RecursionLimit == 8

\* what a step of the walk leaves alone
walkRest == <<outline, bookmarks, total_pages, chapters, manualTitle, pcRanges,
              varsTitle, varsParse, varsMain>>

InitWalk ==
    /\ outline \in [Lists -> ItemSeqs(MaxItems)]
    /\ Sum(outline) <= MaxItems
    /\ bookmarks \in [Nodes -> NodeShapes]
    /\ stack = <<[outline |-> RootList, next |-> 1, depth |-> 0, item |-> "none"]>>
    /\ seen = {}
    /\ yielded = <<>>
    /\ entries = <<>>
    /\ pcWalk = "walk"
    /\ total_pages = 1 /\ chapters = <<>> /\ manualTitle = "" /\ pcRanges = "idle"
    /\ IdleTitle /\ IdleParse /\ IdleMain

Top == stack[Len(stack)]

\* the for loop of the running generator has an item left
HasItem == pcWalk = "walk" /\ Top.next <= Len(outline[Top.outline])

CurrentItem == outline[Top.outline][Top.next]

\* the running frame with its loop moved on to item it
Advanced(it) == [stack EXCEPT ![Len(stack)] = [@ EXCEPT !.next = @ + 1, !.item = it]]

\* a recursive call of _iter_outline_items(list, depth, seen): a new frame,
\* or RecursionError when the interpreter's limit is reached
Call(frames, list, depth) ==
    IF Len(frames) >= RecursionLimit
    THEN /\ pcWalk' = "RecursionError"
         /\ stack' = frames
    ELSE /\ pcWalk' = "walk"
         /\ stack' = Append(frames, [outline |-> list, next |-> 1,
                                     depth |-> depth, item |-> "none"])

\* lines 156-158: a nested list is walked at the same depth
DescendList ==
    /\ HasItem
    /\ CurrentItem \in Lists
    /\ Call(Advanced(CurrentItem), CurrentItem, Top.depth)
    /\ UNCHANGED <<seen, yielded, entries, walkRest>>

\* faulty variant: no node counts as seen
NeverSeen(item_id, seen_ids) == FALSE

\* line 161
AlreadySeen(item_id, seen_ids) == item_id \in seen_ids

\* lines 160-162: a node met before is skipped
SkipSeen ==
    /\ HasItem
    /\ CurrentItem \in Nodes
    /\ AlreadySeen(CurrentItem, seen)
    /\ stack' = Advanced(CurrentItem)
    /\ UNCHANGED <<seen, yielded, entries, pcWalk, walkRest>>

\* faulty variant: a failed resolution is not caught
ResolutionFailureEscapes == FALSE

\* lines 196-197: except Exception: continue
ResolutionFailureCaught == TRUE

\* collect_outline_entries, lines 191-198, for one yielded (depth, item):
\* entries after the loop body, when no exception leaves it
Collected(depth, item) ==
    IF bookmarks[item].titled /\ bookmarks[item].resolves
    THEN Append(entries, [title |-> item, page_index |-> PageOf(item), depth |-> depth])
    ELSE entries

\* collect_outline_entries, lines 194-197: the lookup raises and the
\* exception leaves the loop
Raises(item) ==
    bookmarks[item].titled /\ ~bookmarks[item].resolves /\ ~ResolutionFailureCaught

\* lines 167-177: the child items the generator goes on to walk, "none" when
\* it moves to the next item instead
ChildItems(item) ==
    LET children == bookmarks[item].children IN
    IF children.kind = "none" THEN "none"
    ELSE IF children.kind = "list"
         THEN IF outline[children.target] = <<>> THEN "none" ELSE children.target
    ELSE IF children.kind = "raises" THEN "none"
    ELSE IF outline[children.target] = <<>> THEN "none" ELSE children.target

\* lines 160-178 with lines 190-198: a new node is marked seen and yielded,
\* the loop of collect_outline_entries takes it, and the generator goes on
\* into the node's children at depth + 1
VisitNode ==
    /\ HasItem
    /\ CurrentItem \in Nodes
    /\ ~AlreadySeen(CurrentItem, seen)
    /\ seen' = seen \cup {CurrentItem}
    /\ yielded' = Append(yielded, <<Top.depth, CurrentItem>>)
    /\ IF Raises(CurrentItem)
       THEN /\ pcWalk' = "Exception"
            /\ stack' = Advanced(CurrentItem)
            /\ UNCHANGED entries
       ELSE /\ entries' = Collected(Top.depth, CurrentItem)
            /\ IF ChildItems(CurrentItem) = "none"
               THEN stack' = Advanced(CurrentItem) /\ UNCHANGED pcWalk
               ELSE Call(Advanced(CurrentItem), ChildItems(CurrentItem), Top.depth + 1)
    /\ UNCHANGED walkRest

\* a nested generator is exhausted: its caller's loop goes on
ReturnFromList ==
    /\ pcWalk = "walk"
    /\ Top.next > Len(outline[Top.outline])
    /\ Len(stack) > 1
    /\ stack' = SubSeq(stack, 1, Len(stack) - 1)
    /\ UNCHANGED <<seen, yielded, entries, pcWalk, walkRest>>

\* the outermost generator is exhausted: lines 199-200
FinishWalk ==
    /\ pcWalk = "walk"
    /\ Top.next > Len(outline[Top.outline])
    /\ Len(stack) = 1
    /\ stack' = <<>>
    /\ entries' = SortByPage(entries)
    /\ pcWalk' = "done"
    /\ UNCHANGED <<seen, yielded, walkRest>>

NextWalk == DescendList \/ SkipSeen \/ VisitNode \/ ReturnFromList \/ FinishWalk

SpecWalk == InitWalk /\ [][NextWalk]_vars

\* A walk reaches the recursion limit only inside a cycle of lists: the
\* stack holds a list twice with nothing but nested lists in between.
RecursionErrorOnlyInListCycle ==
    pcWalk = "RecursionError" =>
        \E a, b \in DOMAIN stack :
            /\ a < b
            /\ stack[a].outline = stack[b].outline
            /\ \A k \in a..(b - 1) : stack[k].item \in Lists

\* what an object of the outline leads to: the items of a list, the child
\* list of a node whose children can be had
Successors(x) ==
    IF x \in Lists THEN Range(outline[x])
    ELSE IF bookmarks[x].children.kind \in {"list", "callable"}
         THEN {bookmarks[x].children.target}
    ELSE {}

RECURSIVE ReachableFrom(_)
ReachableFrom(S) ==
    LET T == S \cup UNION {Successors(x) : x \in S}
    IN IF T = S THEN S ELSE ReachableFrom(T)

\* the nodes reachable from the reader's outline
ReachableNodes == ReachableFrom({RootList}) \cap Nodes

\* C2: the walk of every finite outline ends, cycles through children,
\* child producers or nested lists included: it never recurses without end
\* (which Python stops with RecursionError).
C2_WalkNeverRecursesWithoutEnd == pcWalk # "RecursionError"

EntriesOfNode(n) == {i \in DOMAIN entries : entries[i].title = n}

\* C3: in a walk no node is yielded twice, whatever paths and cycles lead to
\* it, and in the result of collect_outline_entries every reachable titled
\* node whose position resolves has exactly one entry, also when it is its
\* own child.
C3_EachNodeOnce ==
    /\ \A i, j \in DOMAIN yielded : i # j => yielded[i][2] # yielded[j][2]
    /\ pcWalk = "done" =>
          \A n \in ReachableNodes :
              (bookmarks[n].titled /\ bookmarks[n].resolves)
                  => Cardinality(EntriesOfNode(n)) = 1

\* C3's case: a finished walk over a titled, resolving node that is among
\* its own children, met a second time and entered once
C3_Witness ==
    /\ pcWalk = "done"
    /\ \E n \in Nodes :
          /\ bookmarks[n].titled /\ bookmarks[n].resolves
          /\ bookmarks[n].children.kind \in {"list", "callable"}
          /\ n \in Range(outline[bookmarks[n].children.target])
          /\ n \in Range(outline[RootList])
          /\ Cardinality(EntriesOfNode(n)) = 1

\* the entry of each yielded node that has a title and resolves, in the
\* order yielded
RECURSIVE EntriesOf(_)
EntriesOf(ys) ==
    IF ys = <<>> THEN <<>>
    ELSE LET y == ys[Len(ys)]
             before == EntriesOf(SubSeq(ys, 1, Len(ys) - 1))
         IN IF bookmarks[y[2]].titled /\ bookmarks[y[2]].resolves
            THEN Append(before, [title |-> y[2], page_index |-> PageOf(y[2]), depth |-> y[1]])
            ELSE before

YieldDepth(n) == yielded[CHOOSE i \in DOMAIN yielded : yielded[i][2] = n][1]

\* C9: a titled node whose position fails to resolve loses its own entry and
\* nothing else: no exception leaves collect_outline_entries, the entries
\* are those of the other yielded nodes (the ones collected before kept),
\* the children of every yielded node, failed or not, are walked at its
\* depth + 1, and a finished walk has visited every reachable node.
C9_FailureDropsOneEntry ==
    /\ pcWalk # "Exception"
    /\ pcWalk # "done" => entries = EntriesOf(yielded)
    /\ pcWalk = "done" => entries = SortByPage(EntriesOf(yielded))
    /\ \A k \in 2..Len(stack) :
          stack[k - 1].item \in Nodes =>
              /\ stack[k].depth = YieldDepth(stack[k - 1].item) + 1
              /\ stack[k].outline = bookmarks[stack[k - 1].item].children.target
    /\ pcWalk = "done" => ReachableNodes = {yielded[i][2] : i \in DOMAIN yielded}

\* C9's case: a finished walk in which a titled node failed to resolve and
\* has no entry, and its child, another node, has its entry one level deeper
C9_Witness ==
    /\ pcWalk = "done"
    /\ \E n, m \in Nodes :
          /\ n # m
          /\ n \in seen
          /\ bookmarks[n].titled /\ ~bookmarks[n].resolves
          /\ EntriesOfNode(n) = {}
          /\ bookmarks[n].children.kind \in {"list", "callable"}
          /\ m \in Range(outline[bookmarks[n].children.target])
          /\ \E i \in DOMAIN entries :
                entries[i].title = m /\ entries[i].depth = YieldDepth(n) + 1

====
